---- MODULE Spec2Model ----
(***************************************************************************)
(* Record_Backend: the authentication controller (signup, login,           *)
(* googleAuth, verifyToken, getUserProfile) over the User collection, and  *)
(* the support controller over the SupportRequest collection.              *)
(* Requests run concurrently on the event loop: a handler runs up to an    *)
(* await on the store and resumes when the store has answered, so every    *)
(* store call of a handler is one step of the model.                       *)
(***************************************************************************)
EXTENDS Integers, FiniteSets, Sequences, TLC

\* ------------------------------------------------------------------ bounds
MaxReqs   == 2      \* requests that can be in flight together
MaxStarts == 3      \* requests received in one behaviour

\* --------------------------------------------------------- program constants
ExpiresInDays == 30 \* generateToken: expiresIn '30d'
SaltRounds    == 10 \* bcrypt.genSalt(10)

Reqs  == 1..MaxReqs
Times == {0, 20, 40}    \* the instants (in days) the clock is sampled at

\* ------------------------------------------------------------------ inputs
Names     == {"n"}
Emails    == {"a", "b"}
LoginEmails == {"a", "A", "b"}
Passwords == {"p", "q"}
Subjects  == {"g1", "g2"}
Salts     == {"s1"}

JwtSecret   == "JWT_SECRET"
OtherSecret == "attacker"

\* the schema lowercases the email on write and on lookup
Lower(e) == IF e = "A" THEN "a" ELSE e

\* ------------------------------------------------------------------ values
\* a stored or supplied password string: plaintext, a bcrypt hash, or undefined
Plain(p)  == [alg |-> "plain", salt |-> "", rounds |-> 0, pw |-> p]
NoHash    == [alg |-> "none", salt |-> "", rounds |-> 0, pw |-> ""]

\* variant: the password is stored as given
BcryptHashPlain(p, salt) == Plain(p)
\* bcrypt.hash(password, salt)
BcryptHash(p, salt) == [alg |-> "bcrypt", salt |-> salt, rounds |-> SaltRounds, pw |-> p]

\* variant: every password is accepted
BcryptCompareAny(p, h) == TRUE
\* bcrypt.compare(password, hash): false for anything that is not a hash
BcryptCompare(p, h) == h.alg = "bcrypt" /\ h.pw = p

NoUser == [id |-> 0, name |-> "", email |-> "", password |-> NoHash,
           authProvider |-> "", googleId |-> "", createdAt |-> 0]

NoToken   == [kind |-> "none", id |-> 0, iat |-> 0, exp |-> 0, key |-> ""]
Garbage   == [kind |-> "garbage", id |-> 0, iat |-> 0, exp |-> 0, key |-> ""]

\* the Google ID token of the request body, with the claims it carries
NoCred    == [kind |-> "none", email |-> "", name |-> "", sub |-> ""]
BadCred   == [kind |-> "bad", email |-> "a", name |-> "n", sub |-> "g1"]
IdToken(e, s) == [kind |-> "idtoken", email |-> e, name |-> "n", sub |-> s]
Credentials == {NoCred, BadCred, IdToken("a", "g1"), IdToken("a", "g2"),
                IdToken("b", "g1")}

\* the Authorization header
NoAuth == [scheme |-> "none", token |-> NoToken]

NoBody == [name |-> "", email |-> "", password |-> "", credential |-> NoCred,
           token |-> NoToken, auth |-> NoAuth,
           subject |-> "", description |-> "", id |-> 0,
           status |-> "", priority |-> ""]

\* request bodies: the well-formed ones and one for each missing field
SignupBodies ==
    {[NoBody EXCEPT !.name = n, !.email = e, !.password = p] :
        n \in Names, e \in Emails, p \in Passwords}
    \cup {[NoBody EXCEPT !.email = "a", !.password = "p"],
          [NoBody EXCEPT !.name = "n", !.password = "p"],
          [NoBody EXCEPT !.name = "n", !.email = "a"]}
LoginBodies ==
    {[NoBody EXCEPT !.email = e, !.password = p] : e \in LoginEmails, p \in Passwords}
    \cup {[NoBody EXCEPT !.password = "p"], [NoBody EXCEPT !.email = "a"]}
GoogleBodies == {[NoBody EXCEPT !.credential = c] : c \in Credentials}

VARIABLES
    users,      \* the User collection
    req,        \* the requests in flight: each handler's position and locals
    last,       \* the request answered last, with its response
    now,        \* the clock
    started,    \* requests received so far
    hist,       \* the signups answered 201: id, email and plaintext password
    fed,        \* the emails for which a googleAuth was answered 200
    tickets     \* the SupportRequest collection

vars == <<users, req, last, now, started, hist, fed, tickets>>

\* --------------------------------------------------------- session tokens
\* variant: expiresIn is given as the number 30 (seconds), so the token has
\* expired within the day it was issued
generateTokenSeconds(userId, t) ==
    [kind |-> "jwt", id |-> userId, iat |-> t, exp |-> t, key |-> JwtSecret]
\* variant: the payload carries no id
generateTokenNoId(userId, t) ==
    [kind |-> "jwt", id |-> 0, iat |-> t, exp |-> t + ExpiresInDays,
     key |-> JwtSecret]
\* jwt.sign({ id: userId }, JWT_SECRET, { expiresIn: '30d' })
generateToken(userId, t) ==
    [kind |-> "jwt", id |-> userId, iat |-> t, exp |-> t + ExpiresInDays,
     key |-> JwtSecret]

\* variant: the token is decoded without checking its signature
JwtDecodeOnly(tok, t) ==
    IF tok.kind # "jwt" THEN "malformed"
    ELSE IF t >= tok.exp THEN "expired"
    ELSE "ok"
\* jwt.verify(token, JWT_SECRET): "ok", or the reason it throws
JwtVerify(tok, t) ==
    IF tok.kind # "jwt" THEN "malformed"
    ELSE IF tok.key # JwtSecret THEN "signature"
    ELSE IF t >= tok.exp THEN "expired"
    ELSE "ok"

\* ------------------------------------------------------------ User store
\* User.findByEmail(email): the matching documents (at most one)
FindByEmail(us, email) == {u \in us : u.email = Lower(email)}

\* User.findById(id)
FindById(us, id) == {u \in us : u.id = id}

\* variant: no unique index
DuplicateKeyNever(us, email) == FALSE
\* the unique index on email rejects the insert
DuplicateKey(us, email) == \E u \in us : u.email = Lower(email)

\* User.create(doc): the stored document, with _id and createdAt assigned;
\* the creation stamp is the document's place in the order of creation
NewUser(us, doc) ==
    [id |-> Cardinality(us) + 1, name |-> doc.name, email |-> Lower(doc.email),
     password |-> doc.password, authProvider |-> doc.authProvider,
     googleId |-> doc.googleId, createdAt |-> Cardinality(us) + 1]

\* user.save(): writes the modified paths of the document with that _id
SaveLink(us, doc) ==
    {IF u.id = doc.id
       THEN [u EXCEPT !.googleId = doc.googleId, !.authProvider = doc.authProvider]
       ELSE u : u \in us}

\* ------------------------------------------------------------- responses
Fail(status, message) == [status |-> status, success |-> FALSE, message |-> message]

\* variant: the document itself is sent
UserSummaryWhole(u) == u
\* { id: user._id, name: user.name, email: user.email }
UserSummary(u) == [id |-> u.id, name |-> u.name, email |-> u.email]

\* the summary getUserProfile returns
UserProfile(u) == [id |-> u.id, name |-> u.name, email |-> u.email,
                   createdAt |-> u.createdAt]

OkToken(status, message, u, tok) ==
    [status |-> status, success |-> TRUE, message |-> message,
     data |-> [user |-> UserSummary(u), token |-> tok]]

OkUser(summary) ==
    [status |-> 200, success |-> TRUE, message |-> "", data |-> [user |-> summary]]

IdleReq == [op |-> "none", pc |-> "idle", body |-> NoBody, user |-> NoUser]

NoLast == [op |-> "none", body |-> NoBody, faulted |-> FALSE, passed |-> FALSE,
           calls |-> {}, resp |-> Fail(0, "")]

Init ==
    /\ users = {}
    /\ req = [r \in Reqs |-> IdleReq]
    /\ last = NoLast
    /\ now = 0
    /\ started = 0
    /\ hist = {}
    /\ fed = {}
    /\ tickets = {}

\* a request is received; it takes the first slot that is not in flight
Receive(r) ==
    /\ req[r].pc = "idle"
    /\ \A q \in Reqs : q < r => req[q].pc # "idle"
    /\ started < MaxStarts
    /\ started' = started + 1

\* the handler awaits a store call
Await(r, op, pc, body, user) ==
    /\ req' = [req EXCEPT ![r] = [op |-> op, pc |-> pc, body |-> body, user |-> user]]
    /\ UNCHANGED last

\* res.status(...).json(...): the request is answered
\* faulted: a store call of the request failed; passed: its existence check
\* found no identity; calls: the store and verifier calls it made
Respond(r, op, body, faulted, passed, calls, resp) ==
    /\ req' = [req EXCEPT ![r] = IdleReq]
    /\ last' = [op |-> op, body |-> body, faulted |-> faulted, passed |-> passed,
                calls |-> calls, resp |-> resp]

\* ------------------------------------------------------------------ signup
\* variant: the hash is computed but not stored
SignupDocNoHash(name, email, hashed) ==
    [name |-> name, email |-> email, password |-> NoHash,
     authProvider |-> "local", googleId |-> ""]
\* the document signup creates
SignupDoc(name, email, hashed) ==
    [name |-> name, email |-> email, password |-> hashed,
     authProvider |-> "local", googleId |-> ""]

\* signup up to the answer of User.findByEmail
Signup(r, body, fault) ==
    /\ Receive(r)
    /\ UNCHANGED <<users, now, hist, fed, tickets>>
    /\ IF body.name = "" \/ body.email = "" \/ body.password = ""
         THEN Respond(r, "signup", body, FALSE, FALSE, {},
                      Fail(400, "Please provide all required fields"))
       ELSE IF fault
         THEN Respond(r, "signup", body, TRUE, FALSE, {"findByEmail"},
                      Fail(500, "Error creating user"))
       ELSE IF FindByEmail(users, body.email) # {}
         THEN Respond(r, "signup", body, FALSE, FALSE, {"findByEmail"},
                      Fail(400, "User already exists with this email"))
       ELSE Await(r, "signup", "create", body, NoUser)

\* signup from bcrypt.genSalt to the response
SignupCreate(r, salt, fault) ==
    LET b    == req[r].body
        doc  == SignupDoc(b.name, b.email, BcryptHash(b.password, salt))
        user == NewUser(users, doc)
        fin(faulted, resp) ==
            Respond(r, "signup", b, faulted, TRUE, {"findByEmail", "create"}, resp)
    IN  /\ req[r].op = "signup" /\ req[r].pc = "create"
        /\ UNCHANGED <<now, started, fed, tickets>>
        /\ IF fault \/ DuplicateKey(users, b.email)
             THEN /\ fin(fault, Fail(500, "Error creating user"))
                  /\ UNCHANGED <<users, hist>>
             ELSE /\ users' = users \cup {user}
                  /\ hist' = hist \cup {[id |-> user.id, email |-> user.email,
                                         password |-> b.password]}
                  /\ fin(FALSE, OkToken(201, "User created successfully", user,
                                        generateToken(user.id, now)))

\* ------------------------------------------------------------------- login
\* "Check if user signed up with Google"
GoogleOnly(user) == user.authProvider = "google" /\ user.password = NoHash

Login(r, body, fault) ==
    LET found == FindByEmail(users, body.email)
        user  == CHOOSE u \in found : TRUE
        fin(faulted, calls, resp) == Respond(r, "login", body, faulted, FALSE, calls, resp)
    IN  /\ Receive(r)
        /\ UNCHANGED <<users, now, hist, fed, tickets>>
        /\ IF body.email = "" \/ body.password = ""
             THEN fin(FALSE, {}, Fail(400, "Please provide email and password"))
           ELSE IF fault
             THEN fin(TRUE, {"findByEmail"}, Fail(500, "Error logging in"))
           ELSE IF found = {}
             THEN fin(FALSE, {"findByEmail"}, Fail(401, "Invalid credentials"))
           ELSE IF GoogleOnly(user)
             THEN fin(FALSE, {"findByEmail"}, Fail(401, "Please sign in with Google"))
           ELSE IF user.password = NoHash   \* bcrypt.compare(password, undefined) throws
             THEN fin(FALSE, {"findByEmail"}, Fail(500, "Error logging in"))
           ELSE IF ~BcryptCompare(body.password, user.password)
             THEN fin(FALSE, {"findByEmail"}, Fail(401, "Invalid credentials"))
           ELSE fin(FALSE, {"findByEmail"},
                    OkToken(200, "Login successful", user, generateToken(user.id, now)))

\* -------------------------------------------------------------- googleAuth
\* variant: the payload is read without verification
VerifyIdTokenAny(credential) == credential.kind # "none"
\* client.verifyIdToken: the verified payload, or it throws
VerifyIdToken(credential) == credential.kind = "idtoken"

\* variant: the payload's sub is not stored
GoogleDocNoSub(payload) ==
    [name |-> payload.name, email |-> payload.email, password |-> NoHash,
     authProvider |-> "google", googleId |-> ""]
\* the document googleAuth creates for a first-time Google user
GoogleDoc(payload) ==
    [name |-> payload.name, email |-> payload.email, password |-> NoHash,
     authProvider |-> "google", googleId |-> payload.sub]

\* variant: the provider is not flipped
LinkGoogleKeepsLocal(user, googleId) == [user EXCEPT !.googleId = googleId]
\* "Link Google account to existing local account": the changes made to the
\* document in memory before user.save()
LinkGoogle(user, googleId) ==
    [user EXCEPT !.googleId = googleId, !.authProvider = "google"]

\* variant: every identity that is found is linked again
NeedsLinkAlways(user) == TRUE
\* "else if (user.authProvider === 'local')"
NeedsLink(user) == user.authProvider = "local"

\* googleAuth up to the answer of User.findByEmail
GoogleAuth(r, body, fault) ==
    LET cred  == body.credential
        found == FindByEmail(users, cred.email)
        user  == CHOOSE u \in found : TRUE
        fin(faulted, calls, resp) == Respond(r, "google", body, faulted, FALSE, calls, resp)
    IN  /\ Receive(r)
        /\ UNCHANGED <<users, now, hist, tickets>>
        /\ IF cred.kind = "none"
             THEN fin(FALSE, {}, Fail(400, "Google credential is required"))
           ELSE IF ~VerifyIdToken(cred)
             THEN fin(FALSE, {"verifyIdToken"},
                      Fail(500, "Error with Google authentication"))
           ELSE IF fault
             THEN fin(TRUE, {"verifyIdToken", "findByEmail"},
                      Fail(500, "Error with Google authentication"))
           ELSE IF found = {}
             THEN Await(r, "google", "gcreate", body, NoUser)
           ELSE IF NeedsLink(user)
             THEN Await(r, "google", "glink", body, LinkGoogle(user, cred.sub))
           ELSE fin(FALSE, {"verifyIdToken", "findByEmail"},
                    OkToken(200, "Google authentication successful", user,
                            generateToken(user.id, now)))
        /\ fed' = IF req'[r].pc = "idle" /\ last'.resp.success
                    THEN fed \cup {user.email} ELSE fed

\* googleAuth from User.create to the response
GoogleCreate(r, fault) ==
    LET b    == req[r].body
        user == NewUser(users, GoogleDoc(b.credential))
        fin(faulted, resp) ==
            Respond(r, "google", b, faulted, TRUE,
                    {"verifyIdToken", "findByEmail", "create"}, resp)
    IN  /\ req[r].op = "google" /\ req[r].pc = "gcreate"
        /\ UNCHANGED <<now, started, hist, tickets>>
        /\ IF fault \/ DuplicateKey(users, b.credential.email)
             THEN /\ fin(fault, Fail(500, "Error with Google authentication"))
                  /\ UNCHANGED <<users, fed>>
             ELSE /\ users' = users \cup {user}
                  /\ fed' = fed \cup {user.email}
                  /\ fin(FALSE, OkToken(200, "Google authentication successful", user,
                                        generateToken(user.id, now)))

\* googleAuth from user.save() to the response
GoogleLink(r, fault) ==
    LET b    == req[r].body
        user == req[r].user
        fin(faulted, resp) ==
            Respond(r, "google", b, faulted, FALSE,
                    {"verifyIdToken", "findByEmail", "save"}, resp)
    IN  /\ req[r].op = "google" /\ req[r].pc = "glink"
        /\ UNCHANGED <<now, started, hist, tickets>>
        /\ IF fault
             THEN /\ fin(TRUE, Fail(500, "Error with Google authentication"))
                  /\ UNCHANGED <<users, fed>>
             ELSE /\ users' = SaveLink(users, user)
                  /\ fed' = fed \cup {user.email}
                  /\ fin(FALSE, OkToken(200, "Google authentication successful", user,
                                        generateToken(user.id, now)))

\* ------------------------------------------------------- presented tokens
\* an identity that was removed from the store after a token was issued to it
GoneUser == [NoUser EXCEPT !.id = 99]

\* the token the last response handed out, if any
HeldTokens ==
    IF /\ last.resp.success /\ "data" \in DOMAIN last.resp
       /\ "token" \in DOMAIN last.resp.data
      THEN {last.resp.data.token} ELSE {}

\* what a client can send: nothing, garbage, a token it was given, a token
\* signed with another key, the token of a removed identity
PresentedTokens ==
    {NoToken, Garbage, generateToken(GoneUser.id, 0)}
    \cup HeldTokens
    \cup {[tok EXCEPT !.key = OtherSecret] : tok \in HeldTokens}

VerifyBodies == {[NoBody EXCEPT !.token = tok] : tok \in PresentedTokens}

ProfileBodies ==
    {NoBody}
    \cup {[NoBody EXCEPT !.auth = [scheme |-> "Bearer", token |-> tok]] :
            tok \in PresentedTokens \ {NoToken}}
    \cup {[NoBody EXCEPT !.auth = [scheme |-> "Basic", token |-> tok]] :
            tok \in HeldTokens}

\* ------------------------------------------------------------- verifyToken
VerifyToken(r, body, fault) ==
    LET tok   == body.token
        found == FindById(users, tok.id)
        user  == CHOOSE u \in found : TRUE
        fin(faulted, calls, resp) == Respond(r, "verify", body, faulted, FALSE, calls, resp)
    IN  /\ Receive(r)
        /\ UNCHANGED <<users, now, hist, fed, tickets>>
        /\ IF tok.kind = "none"
             THEN fin(FALSE, {}, Fail(400, "Token is required"))
           ELSE IF JwtVerify(tok, now) # "ok"
             THEN fin(FALSE, {}, Fail(401, "Invalid or expired token"))
           ELSE IF fault
             THEN fin(TRUE, {"findById"}, Fail(401, "Invalid or expired token"))
           ELSE IF found = {}
             THEN fin(FALSE, {"findById"}, Fail(401, "Invalid token"))
           ELSE fin(FALSE, {"findById"}, OkUser(UserSummary(user)))

\* ---------------------------------------------------------------- the gate
\* protect: the id of a valid bearer token, 0 when the request is rejected
Protect(auth, t) ==
    IF auth.scheme # "Bearer" THEN 0
    ELSE IF JwtVerify(auth.token, t) # "ok" THEN 0
    ELSE auth.token.id

\* variant: DELETE /:id is registered without protect
ProtectedNoDelete == {"profile", "list", "get", "update"}
\* the routes that are registered with protect before their handler
Protected == {"profile", "list", "get", "update", "delete"}

\* the middleware of a route lets the request through to the handler
Gate(op, auth, t) == op \in Protected => Protect(auth, t) # 0

\* ---------------------------------------------------------- getUserProfile
\* GET /profile: protect, then getUserProfile
GetProfile(r, body, fault) ==
    LET id    == Protect(body.auth, now)
        found == FindById(users, id)
        user  == CHOOSE u \in found : TRUE
        fin(faulted, calls, resp) == Respond(r, "profile", body, faulted, FALSE, calls, resp)
    IN  /\ Receive(r)
        /\ UNCHANGED <<users, now, hist, fed, tickets>>
        /\ IF ~Gate("profile", body.auth, now)
             THEN fin(FALSE, {}, Fail(401, "Unauthenticated"))
           ELSE IF fault
             THEN fin(TRUE, {"findById"}, Fail(500, "Error fetching user profile"))
           ELSE IF found = {}
             THEN fin(FALSE, {"findById"}, Fail(404, "User not found"))
           ELSE fin(FALSE, {"findById"}, OkUser(UserProfile(user)))

\* --------------------------------------------------------- support requests
\* the enums of the SupportRequest schema
Statuses == {"pending", "in-progress", "resolved", "closed"}
Priorities == {"low", "medium", "high"}

\* SupportRequest.create: the stored document, with the schema's defaults;
\* id is the number of the request that created it
NewTicket(id, body) ==
    [id |-> id, subject |-> body.subject, description |-> body.description,
     email |-> Lower(body.email), status |-> "pending", priority |-> "medium",
     userId |-> 0]

FindTicket(ts, id) == {t \in ts : t.id = id}

\* a failure answer of the support controller's catch
SupportFail(message, error) ==
    [status |-> 500, success |-> FALSE, message |-> message, error |-> error]

\* what a client sends in the Authorization header of a support route:
\* nothing, garbage, a token the server signed at time 0, the token it holds
SupportAuths ==
    {NoAuth} \cup {[scheme |-> "Bearer", token |-> tok] :
                      tok \in {Garbage, generateToken(GoneUser.id, 0)} \cup HeldTokens}

\* the form of a support request, complete or without subject, sent without
\* an Authorization header
SupportBodies ==
    {[NoBody EXCEPT !.subject = "s", !.description = "d", !.email = "a"],
     [NoBody EXCEPT !.description = "d", !.email = "a"]}

ListBodies == {[NoBody EXCEPT !.auth = a] : a \in SupportAuths}

\* req.params.id: a stored request, or an id no request has
TicketIds == {t.id : t \in tickets} \cup {0}

TicketBodies == {[NoBody EXCEPT !.auth = a, !.id = i] : a \in SupportAuths, i \in TicketIds}

\* { status, priority }: values of the enums, and, with a signed token, a
\* status outside its enum
UpdateBodies ==
    {[b EXCEPT !.status = "resolved", !.priority = "high"] : b \in TicketBodies}
    \cup {[b EXCEPT !.status = "bogus", !.priority = "high"] :
            b \in {c \in TicketBodies : c.auth.token.kind = "jwt"}}

\* POST /: createSupportRequest, with no middleware before it
CreateSupportRequest(r, body, uploadErr, fault) ==
    LET ticket == NewTicket(started + 1, body)
        fin(faulted, calls, resp) == Respond(r, "support", body, faulted, FALSE, calls, resp)
    IN  /\ Receive(r)
        /\ UNCHANGED <<users, now, hist, fed>>
        /\ IF ~Gate("support", body.auth, now)
             THEN /\ fin(FALSE, {}, Fail(401, "Unauthenticated"))
                  /\ UNCHANGED tickets
           ELSE IF uploadErr
             THEN /\ fin(FALSE, {}, Fail(400, "File upload error"))
                  /\ UNCHANGED tickets
           ELSE IF body.subject = "" \/ body.description = "" \/ body.email = ""
             THEN /\ fin(FALSE, {},
                         [status |-> 400, success |-> FALSE,
                          message |-> "Subject, description, and email are required",
                          received |-> [subject |-> body.subject # "",
                                        description |-> body.description # "",
                                        email |-> body.email # ""]])
                  /\ UNCHANGED tickets
           ELSE IF fault
             THEN /\ fin(TRUE, {"SupportRequest.create"},
                         SupportFail("Failed to submit support request", "store"))
                  /\ UNCHANGED tickets
           ELSE /\ tickets' = tickets \cup {ticket}
                /\ fin(FALSE, {"SupportRequest.create"},
                       [status |-> 201, success |-> TRUE,
                        message |-> "Support request submitted successfully",
                        data |-> ticket])

\* GET /: protect, then getAllSupportRequests; the query has no status filter
\* and the page holds every request; find and countDocuments, two reads, are
\* one step
GetAllSupportRequests(r, body, fault) ==
    LET fin(faulted, calls, resp) == Respond(r, "list", body, faulted, FALSE, calls, resp)
    IN  /\ Receive(r)
        /\ UNCHANGED <<users, now, hist, fed, tickets>>
        /\ IF ~Gate("list", body.auth, now)
             THEN fin(FALSE, {}, Fail(401, "Unauthenticated"))
           ELSE IF fault
             THEN fin(TRUE, {"find"},
                      SupportFail("Failed to fetch support requests", "store"))
           ELSE fin(FALSE, {"find", "countDocuments"},
                    [status |-> 200, success |-> TRUE, message |-> "",
                     data |-> [requests |-> tickets],
                     total |-> Cardinality(tickets)])

\* GET /:id: protect, then getSupportRequest
GetSupportRequest(r, body, fault) ==
    LET found == FindTicket(tickets, body.id)
        fin(faulted, calls, resp) == Respond(r, "get", body, faulted, FALSE, calls, resp)
    IN  /\ Receive(r)
        /\ UNCHANGED <<users, now, hist, fed, tickets>>
        /\ IF ~Gate("get", body.auth, now)
             THEN fin(FALSE, {}, Fail(401, "Unauthenticated"))
           ELSE IF fault
             THEN fin(TRUE, {"findById"},
                      SupportFail("Failed to fetch support request", "store"))
           ELSE IF found = {}
             THEN fin(FALSE, {"findById"}, Fail(404, "Support request not found"))
           ELSE fin(FALSE, {"findById"},
                    [status |-> 200, success |-> TRUE, message |-> "",
                     data |-> CHOOSE t \in found : TRUE])

\* PUT /:id: protect, then updateSupportRequestStatus; runValidators refuses
\* a status or priority outside the schema's enums
UpdateSupportRequestStatus(r, body, fault) ==
    LET found   == FindTicket(tickets, body.id)
        ticket  == CHOOSE t \in found : TRUE
        updated == [ticket EXCEPT !.status = body.status, !.priority = body.priority]
        fin(faulted, calls, resp) == Respond(r, "update", body, faulted, FALSE, calls, resp)
    IN  /\ Receive(r)
        /\ UNCHANGED <<users, now, hist, fed>>
        /\ IF ~Gate("update", body.auth, now)
             THEN /\ fin(FALSE, {}, Fail(401, "Unauthenticated"))
                  /\ UNCHANGED tickets
           ELSE IF fault
             THEN /\ fin(TRUE, {"findByIdAndUpdate"},
                         SupportFail("Failed to update support request", "store"))
                  /\ UNCHANGED tickets
           ELSE IF body.status \notin Statuses \/ body.priority \notin Priorities
             THEN /\ fin(FALSE, {"findByIdAndUpdate"},
                         SupportFail("Failed to update support request", "validation"))
                  /\ UNCHANGED tickets
           ELSE IF found = {}
             THEN /\ fin(FALSE, {"findByIdAndUpdate"},
                         Fail(404, "Support request not found"))
                  /\ UNCHANGED tickets
           ELSE /\ tickets' = (tickets \ found) \cup {updated}
                /\ fin(FALSE, {"findByIdAndUpdate"},
                       [status |-> 200, success |-> TRUE,
                        message |-> "Support request updated successfully",
                        data |-> updated])

\* DELETE /:id: protect, then deleteSupportRequest up to the answer of
\* SupportRequest.findById
DeleteSupportRequest(r, body, fault) ==
    LET found == FindTicket(tickets, body.id)
        fin(faulted, calls, resp) == Respond(r, "delete", body, faulted, FALSE, calls, resp)
    IN  /\ Receive(r)
        /\ UNCHANGED <<users, now, hist, fed, tickets>>
        /\ IF ~Gate("delete", body.auth, now)
             THEN fin(FALSE, {}, Fail(401, "Unauthenticated"))
           ELSE IF fault
             THEN fin(TRUE, {"findById"},
                      SupportFail("Failed to delete support request", "store"))
           ELSE IF found = {}
             THEN fin(FALSE, {"findById"}, Fail(404, "Support request not found"))
           ELSE Await(r, "delete", "deleteOne", body, NoUser)

\* deleteSupportRequest from supportRequest.deleteOne() to the response
DeleteOne(r, fault) ==
    LET b == req[r].body
        fin(faulted, resp) ==
            Respond(r, "delete", b, faulted, FALSE, {"findById", "deleteOne"}, resp)
    IN  /\ req[r].op = "delete" /\ req[r].pc = "deleteOne"
        /\ UNCHANGED <<users, now, started, hist, fed>>
        /\ IF fault
             THEN /\ fin(TRUE, SupportFail("Failed to delete support request", "store"))
                  /\ UNCHANGED tickets
             ELSE /\ tickets' = tickets \ FindTicket(tickets, b.id)
                  /\ fin(FALSE, [status |-> 200, success |-> TRUE,
                                 message |-> "Support request deleted successfully"])

\* ------------------------------------------------------------------- clock
Tick ==
    /\ \E t \in Times : t > now /\ now' = t
    /\ UNCHANGED <<users, req, last, started, hist, fed, tickets>>

Next ==
    \/ \E r \in Reqs, b \in SignupBodies, f \in BOOLEAN : Signup(r, b, f)
    \/ \E r \in Reqs, s \in Salts, f \in BOOLEAN : SignupCreate(r, s, f)
    \/ \E r \in Reqs, b \in LoginBodies, f \in BOOLEAN : Login(r, b, f)
    \/ \E r \in Reqs, b \in GoogleBodies, f \in BOOLEAN : GoogleAuth(r, b, f)
    \/ \E r \in Reqs, f \in BOOLEAN : GoogleCreate(r, f)
    \/ \E r \in Reqs, f \in BOOLEAN : GoogleLink(r, f)
    \/ \E r \in Reqs, b \in VerifyBodies, f \in BOOLEAN : VerifyToken(r, b, f)
    \/ \E r \in Reqs, b \in ProfileBodies, f \in BOOLEAN : GetProfile(r, b, f)
    \/ Tick

\* the router of /api/auth
Spec == Init /\ [][Next]_vars

\* the router of /api/support, and of the auth router what stands before and
\* behind the gate: signup as the issuer of tokens, and the profile route.
\* The support handlers write only the SupportRequest collection and the auth
\* handlers only the User collection.
SupportNext ==
    \/ \E r \in Reqs, b \in SupportBodies, e \in BOOLEAN, f \in BOOLEAN :
            CreateSupportRequest(r, b, e, f)
    \/ \E r \in Reqs, b \in ListBodies, f \in BOOLEAN : GetAllSupportRequests(r, b, f)
    \/ \E r \in Reqs, b \in TicketBodies, f \in BOOLEAN : GetSupportRequest(r, b, f)
    \/ \E r \in Reqs, b \in UpdateBodies, f \in BOOLEAN : UpdateSupportRequestStatus(r, b, f)
    \/ \E r \in Reqs, b \in TicketBodies, f \in BOOLEAN : DeleteSupportRequest(r, b, f)
    \/ \E r \in Reqs, f \in BOOLEAN : DeleteOne(r, f)
    \/ \E r \in Reqs, b \in SignupBodies, f \in BOOLEAN : Signup(r, b, f)
    \/ \E r \in Reqs, s \in Salts, f \in BOOLEAN : SignupCreate(r, s, f)
    \/ \E r \in Reqs, b \in ProfileBodies, f \in BOOLEAN : GetProfile(r, b, f)
    \/ Tick

SupportSpec == Init /\ [][SupportNext]_vars

\* ----------------------------------------------------------- properties
\* the step in which a request of kind op is answered before any second
\* store call (validation failure, store failure, or a one-call handler)
Direct(op) == started' = started + 1 /\ req' = req /\ last'.op = op

\* the step in which the request in slot r resumes at pc and is answered
Resumed(r, pc) == req[r].pc = pc /\ req'[r].pc = "idle"

HasToken(resp) ==
    resp.success /\ "data" \in DOMAIN resp /\ "token" \in DOMAIN resp.data

ValidSignup(b) == b.name # "" /\ b.email # "" /\ b.password # ""

UsersAt(email) == FindByEmail(users, email)

\* C1: a signup that passed its own existence check and then lost the write to
\* another signup of the same email is answered with EmailTaken (400 "User
\* already exists with this email"), never with a generic failure, and
\* exactly one identity holds the email.
C1_DuplicateSignup ==
    (/\ last.op = "signup" /\ last.passed /\ ~last.faulted
     /\ \E h \in hist : h.email = Lower(last.body.email))
    => /\ Cardinality(UsersAt(last.body.email)) = 1
       /\ \/ last.resp.status = 201
          \/ last.resp = Fail(400, "User already exists with this email")

\* C2: login hands out a token only for an identity that exists under the
\* given email and whose password is the one supplied, the token is that
\* identity's, and a login against an identity without a password hash is
\* refused without a token, whatever the password.
C2_LoginNeedsPassword ==
    last.op = "login" =>
      /\ HasToken(last.resp) =>
           \E u \in UsersAt(last.body.email) :
              /\ u.password.alg = "bcrypt"
              /\ u.password.pw = last.body.password
              /\ last.resp.data.token.id = u.id
              /\ last.resp.data.token.key = JwtSecret
      /\ (\E u \in UsersAt(last.body.email) : u.password = NoHash) =>
           ~last.resp.success /\ "data" \notin DOMAIN last.resp

C2_Witness ==
    /\ last.op = "login" /\ HasToken(last.resp)
    /\ \E u \in users : u.email # Lower(last.body.email)

\* C3: every refusal of a login for its credentials (unknown email, wrong
\* password, Google-only identity) is the same response.
C3_UniformLoginFailure ==
    (last.op = "login" /\ last.resp.status = 401)
       => last.resp = Fail(401, "Invalid credentials")

\* C4: when googleAuth saves the link of an existing identity, that identity
\* becomes a google identity with the assertion's subject as googleId, its
\* id, name, email and password hash are unchanged, and no identity is added
\* or removed; a login with the signup password still succeeds for a linked
\* identity.
C4_LinkStep ==
    \A r \in Reqs :
      (Resumed(r, "glink") /\ last'.resp.success) =>
        LET cred == req[r].body.credential
        IN  \E u \in users, v \in users' :
              /\ u.email = Lower(cred.email)
              /\ v = [u EXCEPT !.authProvider = "google", !.googleId = cred.sub]
              /\ users' \ {v} = users \ {u}
              /\ Cardinality(users') = Cardinality(users)
              /\ last'.resp.data.user.id = u.id

C4_LoginAfterLink ==
    (/\ last.op = "login" /\ ~last.faulted
     /\ \E h \in hist, u \in users :
           /\ h.email = Lower(last.body.email) /\ h.password = last.body.password
           /\ u.id = h.id /\ u.authProvider = "google")
    => /\ last.resp.status = 200 /\ HasToken(last.resp)
       /\ \E h \in hist : h.email = Lower(last.body.email)
                          /\ last.resp.data.token.id = h.id

\* C4: the link step and the login after it, together
C4_LinkKeepsPassword == [][C4_LinkStep]_vars /\ []C4_LoginAfterLink

C4_Witness ==
    /\ last.op = "login" /\ HasToken(last.resp)
    /\ \E u \in users : /\ u.id = last.resp.data.token.id
                        /\ u.authProvider = "google" /\ u.googleId # ""
                        /\ u.password.pw = last.body.password

\* C5: no two identities of the store have the same email (nor the same id).
C5_UniqueEmail ==
    \A u, v \in users : (u.email = v.email \/ u.id = v.id) => u = v

\* a create lost the race for its email and the store refused it
C5_Witness ==
    /\ last.op \in {"signup", "google"} /\ last.passed /\ ~last.faulted
    /\ last.resp.status = 500
    /\ Cardinality(UsersAt(IF last.op = "signup" THEN last.body.email
                           ELSE last.body.credential.email)) = 1
    /\ Cardinality(users) = 2

\* C6: a signup with all three fields whose email is unused is not refused by
\* the existence check, and when its create meets an unused email and the
\* store works it adds exactly one identity: local, under the lowercased
\* email, with a hash that verifies against the password and differs from
\* it; the answer is 201 with that identity's summary and a token for it.
C6_CheckStep ==
    (Direct("signup") /\ ValidSignup(last'.body) /\ ~last'.faulted)
       => UsersAt(last'.body.email) # {}

C6_CreateStep ==
    \A r \in Reqs :
      (Resumed(r, "create") /\ ~last'.faulted /\ UsersAt(req[r].body.email) = {}) =>
        LET b == req[r].body
        IN  \E u \in users' :
              /\ users' = users \cup {u} /\ u \notin users
              /\ u.email = Lower(b.email) /\ u.name = b.name
              /\ u.authProvider = "local" /\ u.googleId = ""
              /\ BcryptCompare(b.password, u.password)
              /\ u.password # Plain(b.password)
              /\ last'.resp.status = 201 /\ HasToken(last'.resp)
              /\ last'.resp.data.user = [id |-> u.id, name |-> u.name, email |-> u.email]
              /\ last'.resp.data.token.id = u.id
              /\ JwtVerify(last'.resp.data.token, now) = "ok"

\* C6: the existence check and the create step, together
C6_SignupCreates == [][C6_CheckStep /\ C6_CreateStep]_vars

C6_Witness ==
    /\ last.op = "signup" /\ last.resp.status = 201
    /\ \E u \in users : u.id = last.resp.data.user.id /\ u.authProvider = "local"

\* C7: a login with the email and password of a signup that was answered 201
\* is answered 200 with a token for the id that signup returned, unless the
\* store call fails; verifyToken, given that token before it expires,
\* answers 200 with the same id.
C7_LoginStep ==
    (/\ last.op = "login" /\ ~last.faulted
     /\ \E h \in hist : /\ h.email = Lower(last.body.email)
                        /\ h.password = last.body.password)
    => /\ last.resp.status = 200 /\ HasToken(last.resp)
       /\ \E h \in hist : /\ h.email = Lower(last.body.email)
                          /\ last.resp.data.token.id = h.id
                          /\ last.resp.data.user.id = h.id

C7_VerifyStep ==
    (/\ Direct("verify") /\ ~last'.faulted
     /\ last.op = "login" /\ HasToken(last.resp)
     /\ last'.body.token = last.resp.data.token
     /\ now < last.resp.data.token.iat + ExpiresInDays)
    => /\ last'.resp.status = 200 /\ last'.resp.success
       /\ last'.resp.data.user.id = last.resp.data.user.id

\* C7: the login and the verification of its token, together
C7_LoginAfterSignup == []C7_LoginStep /\ [][C7_VerifyStep]_vars

\* a login after a signup ran, at a later time than the signup
C7_Witness ==
    /\ last.op = "login" /\ HasToken(last.resp)
    /\ \E h \in hist, u \in users :
          /\ h.id = last.resp.data.token.id /\ h.password = last.body.password
          /\ u.id = h.id /\ last.resp.data.token.iat > 0

\* C8: a request during which a store call failed is answered 500 or 503,
\* not 401 and not with a success.
C8_StoreFailureIsUpstream ==
    last.faulted => (~last.resp.success /\ last.resp.status \in {500, 503})

\* C9: when the verifier rejects the Google credential, googleAuth answers
\* with a failure (401 or 500) that carries no token, without any store call
\* and without changing the store; when the credential is absent it answers
\* 400 "Google credential is required" without calling verifier or store.
C9_Response ==
    /\ last.op = "google" =>
         /\ last.body.credential.kind = "bad" =>
              /\ ~last.resp.success /\ last.resp.status \in {401, 500}
              /\ "data" \notin DOMAIN last.resp
              /\ last.calls = {"verifyIdToken"}
         /\ last.body.credential.kind = "none" =>
              /\ last.resp = Fail(400, "Google credential is required")
              /\ last.calls = {}
    /\ \A r \in Reqs :
         req[r].op = "google" => req[r].body.credential.kind = "idtoken"

C9_StoreUntouched ==
    (Direct("google") /\ last'.body.credential.kind \in {"bad", "none"})
       => users' = users

\* C9: the response and the untouched store, together
C9_RejectedAssertion == []C9_Response /\ [][C9_StoreUntouched]_vars

C9_Witness ==
    /\ last.op = "google" /\ last.body.credential.kind = "bad"
    /\ last.resp.status = 500
    /\ users # {}

\* C10: verifyToken answers with an identity summary only for a token that
\* is signed with the secret and not expired and whose id is in the store,
\* and the summary is that identity's; every token jwt.verify rejects gets
\* the same 401; a valid token whose identity is not in the store gets a 401
\* of its own, without identity data.
C10_Step ==
    Direct("verify") =>
      LET tok     == last'.body.token
          genuine == tok.kind = "jwt" /\ tok.key = JwtSecret
          live    == now < tok.exp
          resp    == last'.resp
      IN  /\ resp.success =>
                /\ genuine /\ live
                /\ \E u \in users :
                      /\ u.id = tok.id
                      /\ resp.data = [user |-> [id |-> u.id, name |-> u.name,
                                                email |-> u.email]]
          /\ (tok.kind # "none" /\ ~(genuine /\ live)) =>
                resp = Fail(401, "Invalid or expired token")
          /\ (genuine /\ live /\ ~last'.faulted /\ FindById(users, tok.id) = {}) =>
                /\ resp = Fail(401, "Invalid token")
                /\ "data" \notin DOMAIN resp
          /\ users' = users

\* C10: every answer of verifyToken
C10_VerifyOutcomes == [][C10_Step]_vars

\* the token of a removed identity was refused
C10_Witness ==
    /\ last.op = "verify" /\ last.resp = Fail(401, "Invalid token")
    /\ last.body.token.key = JwtSecret /\ last.body.token.id = GoneUser.id
    /\ users # {}

\* the step in which some request is answered
Answered ==
    \/ started' # started /\ req' = req
    \/ \E r \in Reqs : req[r].pc # "idle" /\ req'[r].pc = "idle"

\* C11: a token that is handed out was signed at the time of the response
\* and expires 30 days later; verifyToken refuses a correctly signed token
\* from its expiry on, and accepts it before, when its identity is in the
\* store and the store answers.
C11_Issue ==
    (Answered /\ HasToken(last'.resp)) =>
        LET tok == last'.resp.data.token
        IN  /\ tok.kind = "jwt" /\ tok.key = JwtSecret
            /\ tok.iat = now /\ tok.exp = now + 30

C11_Verify ==
    (/\ Direct("verify")
     /\ last'.body.token.kind = "jwt" /\ last'.body.token.key = JwtSecret)
    => LET tok == last'.body.token
       IN  /\ now >= tok.exp => last'.resp = Fail(401, "Invalid or expired token")
           /\ (/\ now < tok.exp /\ ~last'.faulted
               /\ \E u \in users : u.id = tok.id)
              => /\ last'.resp.status = 200 /\ last'.resp.success
                 /\ last'.resp.data.user.id = tok.id

\* C11: issuance and verification, together
C11_TokenExpiry == [][C11_Issue /\ C11_Verify]_vars

\* the token of an identity of the store was refused after its expiry
C11_Witness ==
    /\ last.op = "verify" /\ last.resp = Fail(401, "Invalid or expired token")
    /\ last.body.token.kind = "jwt" /\ last.body.token.key = JwtSecret
    /\ now > last.body.token.exp
    /\ \E u \in users : u.id = last.body.token.id

AuthOps == {"signup", "login", "google", "verify", "profile"}

\* C12: a response of signup, login, googleAuth, verifyToken or
\* getUserProfile has the fields status, success, message and, on success,
\* data; data has a user with id, name, email (and createdAt for the
\* profile) and possibly a token; no password and no googleId is among them.
C12_NoSecretsInResponse ==
    last.op \in AuthOps =>
      /\ DOMAIN last.resp \subseteq {"status", "success", "message", "data"}
      /\ "data" \in DOMAIN last.resp =>
           /\ DOMAIN last.resp.data \subseteq {"user", "token"}
           /\ DOMAIN last.resp.data.user \subseteq
                 (IF last.op = "profile" THEN {"id", "name", "email", "createdAt"}
                  ELSE {"id", "name", "email"})
           /\ {"password", "googleId"} \cap DOMAIN last.resp.data.user = {}
           /\ "token" \in DOMAIN last.resp.data =>
                DOMAIN last.resp.data.token = {"kind", "id", "iat", "exp", "key"}

\* the profile of an identity that has both a password hash and a googleId
C12_Witness ==
    /\ last.op = "profile" /\ last.resp.success
    /\ \E u \in users : /\ u.id = last.resp.data.user.id
                        /\ u.password # NoHash /\ u.googleId # ""

\* the operations the claim names as protected
GatedOps == {"profile", "list", "get", "update", "delete"}

\* the header carries a bearer token that the server signed and that has
\* not expired at time t
ValidBearer(auth, t) ==
    /\ auth.scheme = "Bearer"
    /\ auth.token.kind = "jwt" /\ auth.token.key = JwtSecret
    /\ t < auth.token.exp

\* C13: a protected request without a valid bearer token is answered 401 in
\* the step it is received, with no store call made and no record changed.
C13_Rejected ==
    (/\ started' = started + 1 /\ req' = req
     /\ last'.op \in GatedOps
     /\ ~ValidBearer(last'.body.auth, now))
    => /\ last'.resp = Fail(401, "Unauthenticated")
       /\ last'.calls = {}
       /\ users' = users /\ tickets' = tickets

\* C13: a protected handler that is waiting for the store belongs to a
\* request whose bearer token was valid when it was received.
C13_HandlerStarted ==
    \A r \in Reqs :
        (req[r].pc = "idle" /\ req'[r].pc # "idle" /\ req'[r].op \in GatedOps)
        => ValidBearer(req'[r].body.auth, now)

\* C13: a complete support request sent without a token is stored, unless
\* the upload or the store fails.
C13_PublicCreate ==
    (/\ Direct("support")
     /\ last'.body.subject # "" /\ last'.body.description # ""
     /\ last'.body.email # "" /\ last'.body.auth = NoAuth
     /\ last'.resp.status \notin {400, 500})
    => /\ last'.resp.status = 201 /\ last'.resp.success
       /\ last'.resp.data \in tickets' /\ last'.resp.data \notin tickets

\* C13: the three, at every step
C13_GateBeforeHandler ==
    [][C13_Rejected /\ C13_HandlerStarted /\ C13_PublicCreate]_vars

\* a request to delete a stored support request, itself submitted without a
\* token, was refused for want of a token and the request is still stored
C13_Witness ==
    /\ last.op = "delete" /\ last.body.auth = NoAuth
    /\ last.resp = Fail(401, "Unauthenticated")
    /\ \E t \in tickets : t.id = last.body.id /\ t.userId = 0

\* C14: an identity of the store has a googleId exactly when a googleAuth
\* for its email has been answered with success.
C14_GoogleIdIffCompleted ==
    \A u \in users : u.googleId # "" <=> u.email \in fed

\* one identity signed up and never used Google, another completed googleAuth
C14_Witness ==
    \E u, v \in users :
        /\ u.googleId = "" /\ u.email \notin fed
        /\ v.googleId # "" /\ v.email \in fed
        /\ v.password # NoHash

\* C15: every identity whose authProvider is local has a password hash.
C15_LocalHasHash ==
    \A u \in users :
        u.authProvider = "local" =>
            /\ u.password # NoHash
            /\ u.password.alg = "bcrypt" /\ u.password.pw # ""

\* a local identity next to a Google identity without hash
C15_Witness ==
    \E u, v \in users :
        /\ u.authProvider = "local" /\ u.password # NoHash
        /\ v.authProvider = "google" /\ v.password = NoHash

\* the identity u of the store is v after the step: it was kept as it is, or
\* it was local and the link step of googleAuth made it a Google identity
KeptOrLinked(u, v) ==
    \/ v = u
    \/ /\ u.authProvider = "local"
       /\ \E r \in Reqs : Resumed(r, "glink")
       /\ \E s \in Subjects : v = [u EXCEPT !.authProvider = "google", !.googleId = s]

\* C16: no step removes an identity or changes its id or email; an identity
\* changes only by the link step of googleAuth, from local to google with
\* the googleId attached; a Google identity never becomes local again.
C16_Step ==
    \A u \in users :
        \E v \in users' :
            /\ v.id = u.id /\ v.email = u.email
            /\ KeptOrLinked(u, v)
            /\ u.authProvider = "google" => v.authProvider = "google"

C16_OnlyLinkMutates == [][C16_Step]_vars

\* the Google identity stored under the email of a credential
GoogleIdentity(us, cred) ==
    {u \in FindByEmail(us, cred.email) : u.authProvider = "google"}

\* C17: a googleAuth request that finds a Google identity under its email
\* makes no store call after the lookup.
C17_NoWriteStep ==
    \A r \in Reqs :
        (req[r].pc = "idle" /\ req'[r].op = "google" /\ req'[r].pc # "idle")
        => GoogleIdentity(users, req'[r].body.credential) = {}

\* C17: it leaves the store as it is, whatever sub the credential carries,
\* and when it succeeds it is answered with a token for that identity.
C17_AnswerStep ==
    (/\ Direct("google")
     /\ GoogleIdentity(users, last'.body.credential) # {}
     /\ VerifyIdToken(last'.body.credential))
    => /\ users' = users
       /\ last'.resp.success =>
            \E u \in GoogleIdentity(users, last'.body.credential) :
                /\ last'.resp.status = 200
                /\ HasToken(last'.resp)
                /\ last'.resp.data.token.id = u.id
                /\ last'.resp.data.token.key = JwtSecret
                /\ last'.resp.data.user.id = u.id
       /\ ~last'.faulted => last'.resp.success

\* C17: both, at every step
C17_AlreadyGoogle == [][C17_NoWriteStep /\ C17_AnswerStep]_vars

\* a Google identity was presented a credential with another sub: it was
\* answered with a token and still has the sub it was created with
C17_Witness ==
    /\ last.op = "google" /\ last.resp.success /\ HasToken(last.resp)
    /\ last.calls = {"verifyIdToken", "findByEmail"}
    /\ \E u \in users :
          /\ u.email = last.body.credential.email
          /\ u.id = last.resp.data.token.id
          /\ u.authProvider = "google"
          /\ u.googleId # "" /\ u.googleId # last.body.credential.sub

====
